---- MODULE Spec2Model ----
(***************************************************************************)
(* Model of server.js: the fan-club membership backend.  The state is the  *)
(* `users` table, the configured gateway secret, the clock read by         *)
(* Date.now(), and one record per HTTP request with the position of its    *)
(* handler.  Each await and each database callback is a separate step, so  *)
(* handlers interleave as they do on the event loop; every database query  *)
(* may fail, and the gateway may answer anything.                          *)
(***************************************************************************)
EXTENDS Integers, Sequences, FiniteSets, TLC

\* ---------------------------------------------------------------- bounds
MaxReq == 2
MaxUsers == 3
MaxClock == 1

\* ------------------------------------------------------------ vocabulary
NULL == "NULL"
NoSecret == "undefined"
GatewayKey == "sk_live"
WrongKey == "sk_other"
NaN == -1
Email == "a@x.com"
OtherEmail == "user@example.com"
Badge == "50"

VARIABLES users, secret, now, reqs

vars == <<users, secret, now, reqs>>

\* ------------------------------------------------------- pure functions

\* express.json(): the parsed value of a raw body; formatting is lost.
Parse(raw) == raw.val

\* JSON.stringify(req.body): the compact serialisation of a parsed value.
Stringify(val) == [val |-> val, fmt |-> "compact"]

\* crypto.createHmac("sha512", key).update(body).digest("hex"), taken as
\* collision free: the digest determines the key and the bytes.
Hmac(key, body) == <<"hmac-sha512", key, body>>

\* a verifier that accepts whatever signature it is given
verifyPaystackSignature_AcceptAll(signature, body, secretKey) == "true"

\* verifyPaystackSignature(signature, body) with a given secret:
\* createHmac throws a TypeError when the key is undefined.
verifyPaystackSignature(signature, body, secretKey) ==
  IF secretKey = NoSecret THEN "TypeError"
  ELSE IF Hmac(secretKey, body) = signature THEN "true" ELSE "false"

\* parseInt(badge, 10)
ParseInt(s) == IF s = "50" THEN 50 ELSE NaN

\* amount / 100 compared with the stored integer amount
AmountMatches(stored, kobo) == stored * 100 = kobo

\* a success test that looks at result.status only (true for a transaction
\* the gateway found but reports as failed)
GatewaySaysSuccess_StatusOnly(g) == g \in {"success", "failed"}

\* if (result.status && result.data.status === "success")
GatewaySaysSuccess(g) == g = "success"

\* the gateway outcomes for which the handler falls into the catch block:
\* fetch or response.json() rejects, or result.status is truthy and
\* result.data is absent
GatewayThrows(g) == g \in {"neterr", "nodata"}

\* a handler without the eligibility check
NotActive_Unchecked(row) == FALSE

\* if (!user.isActive) / if (!user[0].isActive)
NotActive(row) == ~row.isActive

\* the paid test inverted
IsUnpaid_Inverted(row) == row.isPaid

\* if (user[0].isPaid === 0)
IsUnpaid(row) == ~row.isPaid

\* an UPDATE without its WHERE clause
SetPaid_NoWhere(u, id) == [i \in DOMAIN u |-> [u[i] EXCEPT !.isPaid = TRUE]]

\* an UPDATE that flips the flag instead of setting it
SetPaid_Toggle(u, id) ==
  [i \in DOMAIN u |-> IF i = id THEN [u[i] EXCEPT !.isPaid = ~u[i].isPaid] ELSE u[i]]

\* UPDATE users SET isPaid = true WHERE id = ?
SetPaid(u, id) ==
  [i \in DOMAIN u |-> IF i = id THEN [u[i] EXCEPT !.isPaid = TRUE] ELSE u[i]]

\* SELECT ... FROM users WHERE id = ?  (the ids of the rows returned)
SelectById(u, id) == IF id \in DOMAIN u THEN <<id>> ELSE <<>>

\* SELECT ... FROM users WHERE email = ? AND amount = ?, in table order;
\* a NULL email column matches nothing
RECURSIVE SelectFrom(_, _, _, _)
SelectFrom(u, i, email, kobo) ==
  IF i > Len(u) THEN <<>>
  ELSE (IF u[i].email # NULL /\ u[i].email = email /\ AmountMatches(u[i].amount, kobo)
        THEN <<i>> ELSE <<>>) \o SelectFrom(u, i + 1, email, kobo)

SelectByEmailAmount(u, email, kobo) == SelectFrom(u, 1, email, kobo)

\* ---------------------------------------------------------------- inputs

\* event.data: { reference, amount, customer: { email } }, or absent
Data(kobo, email) == [present |-> TRUE, amount |-> kobo, email |-> email]
NoData == [present |-> FALSE, amount |-> 0, email |-> NULL]

\* a request without the x-paystack-signature header
NoSignature == <<>>

Payloads ==
  { [event |-> "charge.success", data |-> Data(5000, Email)],
    [event |-> "charge.success", data |-> Data(5000, OtherEmail)],
    [event |-> "charge.success", data |-> NoData],
    [event |-> "transfer.success", data |-> NoData] }

\* a raw body is a JSON value together with its formatting: the gateway's
\* compact form, or the same value with insignificant whitespace
RawBodies ==
  { [val |-> p, fmt |-> "compact"] : p \in Payloads } \cup
  { [val |-> [event |-> "charge.success", data |-> Data(5000, Email)], fmt |-> "spaced"] }

\* the header values tried for a body: absent, the gateway's signature of
\* the raw bytes, the gateway's signature of the compact form, and (for the
\* compact bodies that carry data) a signature under another key
Signatures(raw) ==
  { NoSignature, Hmac(GatewayKey, raw), Hmac(GatewayKey, Stringify(Parse(raw))) } \cup
  (IF raw.val.data.email = Email /\ raw.fmt = "compact" THEN {Hmac(WrongKey, raw)} ELSE {})

GatewayOutcomes == {"success", "failed", "nostatus", "nodata", "neterr"}

\* { reference, userId } of POST /verify-payment; 0 stands for a missing id
VerifyInputs ==
  { [reference |-> NULL, userId |-> 1], [reference |-> "ref", userId |-> 0] } \cup
  { [reference |-> "ref", userId |-> id] : id \in {1, MaxUsers} }

FormFields == {"nickname", "tiktokHandle", "fanSince", "badge", "nationality"}

\* ------------------------------------------------------------ requests

NewReq(kind, arg) ==
  [kind |-> kind, pc |-> "new", arg |-> arg, rows |-> <<>>, ref |-> <<>>,
   status |-> 0, msg |-> ""]

Respond(r, status, msg) == [r EXCEPT !.pc = "done", !.status = status, !.msg = msg]

\* an exception leaves the async handler: no response is sent
Throw(r) == [r EXCEPT !.pc = "threw"]

At(i, kind, pc) == i \in DOMAIN reqs /\ reqs[i].kind = kind /\ reqs[i].pc = pc

\* ------------------------------------------------------------------ Init

\* the table before the first request: two unpaid members with the same
\* email and amount (columns filled in outside this program); the first is
\* eligible or not, the second is eligible
InitUsers ==
  { <<[email |-> Email, amount |-> 50, fanSince |-> "2020", isActive |-> a1, isPaid |-> FALSE],
      [email |-> Email, amount |-> 50, fanSince |-> "2020", isActive |-> TRUE, isPaid |-> FALSE]>> :
    a1 \in BOOLEAN }

Init ==
  /\ users \in InitUsers
  /\ secret \in {GatewayKey, NoSecret}
  /\ now = 0
  /\ reqs = <<>>

\* --------------------------------------------------------------- actions

\* an entry that handles every signed event as a successful charge
WebhookEntry_NoEventTest(r) ==
  LET body == Parse(r.arg.raw)
      isValid == verifyPaystackSignature(r.arg.sig, Stringify(body), secret)
  IN  IF isValid = "TypeError" THEN Throw(r)
      ELSE IF isValid = "false" THEN Respond(r, 400, "Invalid Paystack signature")
      ELSE IF ~body.data.present THEN Throw(r)
      ELSE [r EXCEPT !.pc = "select"]

\* POST /webhook up to the first await: signature check, event dispatch,
\* destructuring of event.data
WebhookEntry(r) ==
  LET body == Parse(r.arg.raw)
      isValid == verifyPaystackSignature(r.arg.sig, Stringify(body), secret)
  IN  IF isValid = "TypeError" THEN Throw(r)
      ELSE IF isValid = "false" THEN Respond(r, 400, "Invalid Paystack signature")
      ELSE IF body.event # "charge.success" THEN Respond(r, 200, "received")
      ELSE IF ~body.data.present THEN Throw(r)
      ELSE [r EXCEPT !.pc = "select"]

WebhookReceive ==
  /\ Len(reqs) < MaxReq
  /\ \E raw \in RawBodies : \E sig \in Signatures(raw) :
       reqs' = Append(reqs, WebhookEntry(NewReq("webhook", [raw |-> raw, sig |-> sig])))
  /\ UNCHANGED <<users, secret, now>>

\* the SELECT of the webhook resolves and the handler runs to the UPDATE
WebhookAfterSelect(r, u, err) ==
  LET data == Parse(r.arg.raw).data
      user == SelectByEmailAmount(u, data.email, data.amount)
  IN  IF err THEN Respond(r, 500, "Database Error")
      ELSE IF Len(user) = 0 THEN Respond(r, 404, "User not found")
      ELSE IF NotActive(u[user[1]])
        THEN Respond([r EXCEPT !.rows = user], 400, "Membership status is not active")
      ELSE IF IsUnpaid(u[user[1]]) THEN [r EXCEPT !.rows = user, !.pc = "update"]
      ELSE Respond([r EXCEPT !.rows = user], 400, "User already marked as paid.")

WebhookSelect(i) ==
  /\ At(i, "webhook", "select")
  /\ \E err \in BOOLEAN :
       reqs' = [reqs EXCEPT ![i] = WebhookAfterSelect(reqs[i], users, err)]
  /\ UNCHANGED <<users, secret, now>>

\* the UPDATE of the webhook executes; the awaiting handler then responds
WebhookUpdate(i) ==
  /\ At(i, "webhook", "update")
  /\ \E err \in BOOLEAN :
       IF err
       THEN /\ reqs' = [reqs EXCEPT ![i] = Respond(reqs[i], 500, "Database Error")]
            /\ UNCHANGED users
       ELSE /\ users' = SetPaid(users, reqs[i].rows[1])
            /\ reqs' = [reqs EXCEPT ![i].pc = "written"]
  /\ UNCHANGED <<secret, now>>

WebhookRespond(i) ==
  /\ At(i, "webhook", "written")
  /\ reqs' = [reqs EXCEPT ![i] = Respond(reqs[i], 200, "Payment confirmed")]
  /\ UNCHANGED <<users, secret, now>>

\* POST /verify-payment up to the gateway call
VerifyEntry(r) ==
  IF r.arg.reference = NULL \/ r.arg.userId = 0
  THEN Respond(r, 400, "Transaction reference or User ID missing")
  ELSE [r EXCEPT !.pc = "fetch"]

VerifyReceive ==
  /\ Len(reqs) < MaxReq
  /\ \E a \in VerifyInputs :
       reqs' = Append(reqs, VerifyEntry(NewReq("verify", a)))
  /\ UNCHANGED <<users, secret, now>>

\* the gateway's answer to GET /transaction/verify/:reference; the answer is
\* kept in the request record (ref) for the properties below
VerifyAfterGateway(r, g) ==
  IF GatewayThrows(g) THEN Respond([r EXCEPT !.ref = <<g>>], 500, "Gateway error")
  ELSE IF GatewaySaysSuccess(g) THEN [r EXCEPT !.pc = "select", !.ref = <<g>>]
  ELSE Respond([r EXCEPT !.ref = <<g>>], 400, "Payment verification failed")

VerifyGateway(i) ==
  /\ At(i, "verify", "fetch")
  /\ \E g \in GatewayOutcomes :
       reqs' = [reqs EXCEPT ![i] = VerifyAfterGateway(reqs[i], g)]
  /\ UNCHANGED <<users, secret, now>>

\* a callback that, like the webhook, turns away a member already paid
VerifyAfterSelect_RejectPaid(r, u, err) ==
  LET rows == SelectById(u, r.arg.userId)
  IN  IF err THEN Respond(r, 500, "Server error")
      ELSE IF Len(rows) = 0 THEN Respond(r, 404, "User not found")
      ELSE IF NotActive(u[rows[1]])
        THEN Respond([r EXCEPT !.rows = rows], 400, "Membership status is not active")
      ELSE IF IsUnpaid(u[rows[1]]) THEN [r EXCEPT !.rows = rows, !.pc = "update"]
      ELSE Respond([r EXCEPT !.rows = rows], 400, "User already marked as paid.")

\* the callback of the SELECT by id
VerifyAfterSelect(r, u, err) ==
  LET rows == SelectById(u, r.arg.userId)
  IN  IF err THEN Respond(r, 500, "Server error")
      ELSE IF Len(rows) = 0 THEN Respond(r, 404, "User not found")
      ELSE IF NotActive(u[rows[1]])
        THEN Respond([r EXCEPT !.rows = rows], 400, "Membership status is not active")
      ELSE [r EXCEPT !.rows = rows, !.pc = "update"]

VerifySelect(i) ==
  /\ At(i, "verify", "select")
  /\ \E err \in BOOLEAN :
       reqs' = [reqs EXCEPT ![i] = VerifyAfterSelect(reqs[i], users, err)]
  /\ UNCHANGED <<users, secret, now>>

\* a handler that does not look at the error of the UPDATE
VerifyUpdate_IgnoresError(i) ==
  /\ At(i, "verify", "update")
  /\ \E err \in BOOLEAN :
       /\ users' = IF err THEN users ELSE SetPaid(users, reqs[i].arg.userId)
       /\ reqs' = [reqs EXCEPT ![i].pc = "written"]
  /\ UNCHANGED <<secret, now>>

\* the UPDATE by id executes in the store
VerifyUpdate(i) ==
  /\ At(i, "verify", "update")
  /\ \E err \in BOOLEAN :
       IF err
       THEN /\ reqs' = [reqs EXCEPT ![i] = Respond(reqs[i], 500, "Error updating payment status")]
            /\ UNCHANGED users
       ELSE /\ users' = SetPaid(users, reqs[i].arg.userId)
            /\ reqs' = [reqs EXCEPT ![i].pc = "written"]
  /\ UNCHANGED <<secret, now>>

\* the callback of the UPDATE
VerifyRespond(i) ==
  /\ At(i, "verify", "written")
  /\ reqs' = [reqs EXCEPT ![i] = Respond(reqs[i], 200, "success")]
  /\ UNCHANGED <<users, secret, now>>

\* POST /submit-form: validation
SubmitEntry(r) ==
  IF r.arg.missing \in {"nickname", "tiktokHandle", "badge", "nationality"}
  THEN Respond(r, 400, "All fields are required")
  ELSE [r EXCEPT !.pc = "insert"]

SubmitReceive ==
  /\ Len(reqs) < MaxReq
  /\ \E missing \in FormFields \cup {"none"} :
       reqs' = Append(reqs, SubmitEntry(NewReq("submit", [missing |-> missing])))
  /\ UNCHANGED <<users, secret, now>>

\* the row written by the INSERT: email, isActive and isPaid are not among
\* its columns and take the table's defaults
NewRow(arg, active) ==
  [email |-> NULL, amount |-> ParseInt(Badge),
   fanSince |-> IF arg.missing = "fanSince" THEN NULL ELSE "2020",
   isActive |-> active, isPaid |-> FALSE]

SubmitInsert(i) ==
  /\ At(i, "submit", "insert")
  /\ \/ /\ reqs' = [reqs EXCEPT ![i] = Respond(reqs[i], 500, "Error saving user")]
        /\ UNCHANGED users
     \/ /\ Len(users) < MaxUsers
        /\ \E active \in BOOLEAN : users' = Append(users, NewRow(reqs[i].arg, active))
        /\ reqs' = [reqs EXCEPT ![i] =
                      Respond([reqs[i] EXCEPT !.rows = <<Len(users) + 1>>], 201, "success")]
  /\ UNCHANGED <<secret, now>>

\* reference: `PellerNation-${userId}-${Date.now()}`
Reference(userId, t) == <<"PellerNation", userId, t>>

\* { userId, amount } of POST /generate-payment-link; 0 stands for missing
LinkInputs ==
  { [userId |-> 0, amount |-> 50], [userId |-> 1, amount |-> 0], [userId |-> 1, amount |-> 50] }

\* POST /generate-payment-link up to the gateway call.  Date.now() is read
\* here and nowhere else, so the time that passed since the last reading is
\* chosen at the reading (t >= now).
LinkEntry(r, t) ==
  IF r.arg.userId = 0 \/ r.arg.amount = 0
  THEN Respond(r, 400, "User ID and amount are required")
  ELSE [r EXCEPT !.pc = "fetch", !.ref = Reference(r.arg.userId, t)]

LinkReceive ==
  /\ Len(reqs) < MaxReq
  /\ \E a \in LinkInputs, t \in now..MaxClock :
       /\ reqs' = Append(reqs, LinkEntry(NewReq("link", a), t))
       /\ now' = IF reqs'[Len(reqs')].pc = "fetch" THEN t ELSE now
  /\ UNCHANGED <<users, secret>>

\* the gateway's answer to POST /transaction/initialize
LinkAfterGateway(r, g) ==
  IF g = "ok" THEN Respond(r, 200, "paymentLink")
  ELSE IF g = "neterr" THEN Respond(r, 500, "Error connecting to Paystack API")
  ELSE Respond(r, 500, "Failed to generate payment link")

\* a handler that marks the member paid as soon as the link is issued
LinkGateway_MarksPaid(i) ==
  /\ At(i, "link", "fetch")
  /\ \E g \in {"ok", "refused", "neterr"} :
       /\ reqs' = [reqs EXCEPT ![i] = LinkAfterGateway(reqs[i], g)]
       /\ users' = IF g = "ok" THEN SetPaid(users, reqs[i].arg.userId) ELSE users
  /\ UNCHANGED <<secret, now>>

LinkGateway(i) ==
  /\ At(i, "link", "fetch")
  /\ \E g \in {"ok", "refused", "neterr"} :
       reqs' = [reqs EXCEPT ![i] = LinkAfterGateway(reqs[i], g)]
  /\ UNCHANGED <<users, secret, now>>

\* GET /member-details
DetailsEntry(r) ==
  IF r.arg.userId = 0 THEN Respond(r, 400, "User ID is required")
  ELSE [r EXCEPT !.pc = "select"]

DetailsReceive ==
  /\ Len(reqs) < MaxReq
  /\ \E userId \in {0, 1, MaxUsers} :
       reqs' = Append(reqs, DetailsEntry(NewReq("details", [userId |-> userId])))
  /\ UNCHANGED <<users, secret, now>>

DetailsAfterSelect(r, u, err) ==
  LET results == SelectById(u, r.arg.userId)
  IN  IF err THEN Respond(r, 500, "Server error")
      ELSE IF Len(results) = 0 THEN Respond(r, 404, "User not found")
      ELSE Respond([r EXCEPT !.rows = results], 200, "member")

DetailsSelect(i) ==
  /\ At(i, "details", "select")
  /\ \E err \in BOOLEAN :
       reqs' = [reqs EXCEPT ![i] = DetailsAfterSelect(reqs[i], users, err)]
  /\ UNCHANGED <<users, secret, now>>

Next ==
  \/ WebhookReceive
  \/ \E i \in 1..MaxReq : WebhookSelect(i)
  \/ \E i \in 1..MaxReq : WebhookUpdate(i)
  \/ \E i \in 1..MaxReq : WebhookRespond(i)
  \/ VerifyReceive
  \/ \E i \in 1..MaxReq : VerifyGateway(i)
  \/ \E i \in 1..MaxReq : VerifySelect(i)
  \/ \E i \in 1..MaxReq : VerifyUpdate(i)
  \/ \E i \in 1..MaxReq : VerifyRespond(i)
  \/ SubmitReceive
  \/ \E i \in 1..MaxReq : SubmitInsert(i)
  \/ LinkReceive
  \/ \E i \in 1..MaxReq : LinkGateway(i)
  \/ DetailsReceive
  \/ \E i \in 1..MaxReq : DetailsSelect(i)

Spec == Init /\ [][Next]_vars

\* ------------------------------------------------------------ properties

Members == DOMAIN users
Requests == DOMAIN reqs

Finished(r) == r.pc \in {"done", "threw"}
Quiescent == \A i \in Requests : Finished(reqs[i])

\* the request has executed its UPDATE
Wrote(r) == r.pc = "written" \/ (r.pc = "done" /\ r.status = 200 /\ r.msg \in {"success", "Payment confirmed"})

\* a webhook signed by the gateway: its key over the body as sent or over
\* the compact form of the same JSON value
SignedByGateway(r) ==
  r.arg.sig \in {Hmac(GatewayKey, r.arg.raw), Hmac(GatewayKey, Stringify(Parse(r.arg.raw)))}

ChargeSuccess(r) ==
  r.kind = "webhook" /\ SignedByGateway(r) /\ Parse(r.arg.raw).event = "charge.success"
    /\ Parse(r.arg.raw).data.present

\* a verification the gateway reported successful, for member m
VerifiedFor(r, m) == r.kind = "verify" /\ r.ref = <<"success">> /\ r.arg.userId = m

\* a signed charge.success webhook whose lookup resolved to member m
ChargeFor(r, m) == ChargeSuccess(r) /\ Len(r.rows) > 0 /\ r.rows[1] = m

\* a valid confirming event for m was accepted: the handler answered success
Accepted(r, m) ==
  /\ r.pc = "done" /\ r.status = 200
  /\ \/ VerifiedFor(r, m) /\ r.msg = "success"
     \/ ChargeFor(r, m) /\ r.msg = "Payment confirmed"

InactiveAnswer(r) == r.pc = "done" /\ r.status = 400 /\ r.msg = "Membership status is not active"

\* C1: a member whose isActive is false is never paid, whatever valid
\* confirmations (successful verifications, signed charge.success webhooks)
\* arrive and however they interleave.
C1_InactiveNeverPaid ==
  \A m \in Members : ~users[m].isActive => ~users[m].isPaid

\* C1 witness: an inactive member was the target of a successful verification
\* and of a signed charge.success webhook, both answered, and is unpaid.
C1_Witness ==
  \E m \in Members, i \in Requests, j \in Requests :
    /\ ~users[m].isActive /\ ~users[m].isPaid
    /\ VerifiedFor(reqs[i], m) /\ InactiveAnswer(reqs[i])
    /\ ChargeFor(reqs[j], m) /\ InactiveAnswer(reqs[j])

\* C2: isPaid is monotone: no step of any handler takes a member from paid
\* to unpaid.
C2_PaidMonotone ==
  [][\A m \in Members : users[m].isPaid => users'[m].isPaid]_vars

\* C2 witness: a member is paid and a second confirmation for the same
\* member has run to its answer after the first one wrote.
C2_Witness ==
  \E m \in Members, i \in Requests, j \in Requests :
    /\ i # j /\ users[m].isPaid
    /\ Accepted(reqs[i], m)
    /\ reqs[j].pc = "done" /\ (VerifiedFor(reqs[j], m) \/ ChargeFor(reqs[j], m))

\* C3: when no request is in flight, a member is paid if and only if a valid
\* confirming event for that member was accepted (a successful verification
\* or a signed charge.success webhook resolving to the member, answered with
\* success).
C3_PaidIffAccepted ==
  Quiescent =>
    \A m \in Members : users[m].isPaid <=> \E i \in Requests : Accepted(reqs[i], m)

\* C3 witness: at rest, one member is paid through an accepted event while a
\* confirmation for some member was turned down or failed.
C3_Witness ==
  /\ Quiescent
  /\ \E m \in Members, i \in Requests : users[m].isPaid /\ Accepted(reqs[i], m)
  /\ \E j \in Requests :
       /\ reqs[j].kind \in {"verify", "webhook"}
       /\ reqs[j].pc = "done" /\ reqs[j].status # 200

\* two deliveries of the same signed charge.success webhook
SameDelivery(i, j) ==
  i # j /\ ChargeSuccess(reqs[i]) /\ ChargeSuccess(reqs[j]) /\ reqs[i].arg = reqs[j].arg

\* the lookup of delivery r resolves in table u to an active member
ResolvesActive(r, u) ==
  LET d == Parse(r.arg.raw).data
      user == SelectByEmailAmount(u, d.email, d.amount)
  IN  Len(user) > 0 /\ u[user[1]].isActive

\* C4, as the specification states it: when a delivery of a signed charge.success
\* webhook has been answered "Payment confirmed" and the same webhook is
\* delivered again, the lookup of the second delivery ends the request with a
\* non-error (200) answer and without a write, unless the store fails.
C4_SecondDeliveryNotAnError ==
  [][\A i \in Requests, j \in Requests :
       ( /\ SameDelivery(i, j)
         /\ Accepted(reqs[i], reqs[i].rows[1])
         /\ reqs[j].pc = "select" /\ reqs'[j].pc # "select"
         /\ reqs'[j].status # 500 )
       => /\ users' = users
          /\ reqs'[j].pc = "done"
          /\ reqs'[j].status = 200]_vars

\* C5, as the specification states it: of two overlapping deliveries of the same signed
\* charge.success webhook for an active member at most one executes the
\* UPDATE, and a delivery whose lookup returns while the other one is in
\* flight is never answered with an error status, unless the store fails.
C5_OneTransitionNoError ==
  [][\A i \in Requests, j \in Requests :
       SameDelivery(i, j) =>
         /\ ~(Wrote(reqs'[i]) /\ Wrote(reqs'[j]))
         /\ ( /\ reqs[i].pc \in {"select", "update", "written"}
              /\ ResolvesActive(reqs[j], users)
              /\ reqs[j].pc = "select" /\ reqs'[j].pc = "done"
              /\ reqs'[j].status # 500 )
            => reqs'[j].status = 200]_vars

\* C6: for an active member, every answered valid confirmation of either
\* kind (a successful verification that found the member, or a signed
\* charge.success webhook that resolved to the member) leaves the member paid, in whatever order and
\* however often they are delivered, unless the store or gateway call failed
\* (status 500).
C6_Converges ==
  \A i \in Requests, m \in Members :
    ( /\ reqs[i].pc = "done" /\ reqs[i].status # 500
      /\ users[m].isActive
      /\ ((VerifiedFor(reqs[i], m) /\ reqs[i].rows = <<m>>) \/ ChargeFor(reqs[i], m)) )
    => users[m].isPaid

\* C6 witness: a verification and a webhook for the same active member have
\* both been answered and the webhook was the one that found the member
\* unpaid (webhook first, or both lookups before either write).
C6_Witness ==
  \E m \in Members, i \in Requests, j \in Requests :
    /\ users[m].isActive /\ users[m].isPaid
    /\ VerifiedFor(reqs[i], m) /\ Accepted(reqs[i], m)
    /\ ChargeFor(reqs[j], m) /\ Accepted(reqs[j], m)

\* C6 witness for the other order: the verification wrote first and the
\* webhook found the member already paid.
C6_WitnessVerifyFirst ==
  \E m \in Members, i \in Requests, j \in Requests :
    /\ users[m].isActive /\ users[m].isPaid
    /\ VerifiedFor(reqs[i], m) /\ Accepted(reqs[i], m)
    /\ ChargeFor(reqs[j], m) /\ reqs[j].pc = "done" /\ reqs[j].status = 400

\* C7, as the specification states it: a webhook whose signature is wrong or missing
\* (not produced with the gateway's key for this body) is answered 400 and
\* reads no member record.
C7_InvalidSignatureRejected ==
  \A i \in Requests :
    (reqs[i].kind = "webhook" /\ ~SignedByGateway(reqs[i]))
    => reqs[i].pc = "done" /\ reqs[i].status = 400 /\ reqs[i].rows = <<>>

\* the handler passed the signature check
PassedSignature(r) == ~(r.pc = "done" /\ r.msg = "Invalid Paystack signature")

\* C8, as the specification states it: with the secret configured, the handler accepts
\* a webhook if and only if the supplied signature is the HMAC-SHA512, under
\* the gateway secret, of the exact raw body.
C8_AcceptsIffRawBodySigned ==
  \A i \in Requests :
    (reqs[i].kind = "webhook" /\ secret = GatewayKey)
    => (PassedSignature(reqs[i]) <=> reqs[i].arg.sig = Hmac(GatewayKey, reqs[i].arg.raw))

\* C9, as the specification states it: for every webhook received, under every
\* configuration of the secret, the signature verifier returns a boolean
\* instead of throwing.
C9_VerifierNeverThrows ==
  \A i \in Requests :
    reqs[i].kind = "webhook" =>
      verifyPaystackSignature(reqs[i].arg.sig, Stringify(Parse(reqs[i].arg.raw)), secret)
        \in {"true", "false"}

\* C10: a verification the gateway does not report as successful changes no
\* member record and ends the request at once: 400 when the gateway reports
\* another status, 500 when the gateway call fails; only a verification
\* reported successful ever reaches the store.
C10_NoChangeUnlessSuccess ==
  [][\A i \in Requests :
       reqs[i].kind = "verify" =>
         /\ ( reqs[i].pc = "fetch" /\ reqs'[i].pc # "fetch" /\ reqs'[i].ref # <<"success">> )
            => /\ users' = users
               /\ reqs'[i].pc = "done"
               /\ reqs'[i].status = IF reqs'[i].ref[1] \in {"failed", "nostatus"} THEN 400 ELSE 500
         /\ reqs'[i].pc \in {"select", "update", "written"} \/ reqs'[i].rows # <<>>
            => reqs'[i].ref = <<"success">>]_vars

\* C10 witness: one verification was answered 400 after the gateway reported
\* a failed transaction, another 500 after the gateway call failed, and the
\* member they name is unpaid.
C10_Witness ==
  \E i \in Requests, j \in Requests :
    /\ reqs[i].kind = "verify" /\ reqs[i].ref = <<"failed">> /\ reqs[i].status = 400
    /\ reqs[j].kind = "verify" /\ reqs[j].ref = <<"neterr">> /\ reqs[j].status = 500
    /\ reqs[i].arg.userId \in Members /\ ~users[reqs[i].arg.userId].isPaid

\* C11: a verification the gateway reports successful never depends on the
\* member being unpaid: its lookup sends an existing active member to the
\* UPDATE whether or not isPaid is already true, and answers 404 without a
\* change when the member is absent; once answered (and unless the store
\* failed, status 500) the answer for an existing active member is 200 and
\* the member is paid.
C11_VerifyIdempotent ==
  [][\A i \in Requests :
       reqs[i].kind = "verify" =>
         LET id == reqs[i].arg.userId
             looked == reqs[i].pc = "select" /\ reqs'[i].pc # "select" /\ reqs'[i].status # 500
         IN  /\ (looked /\ id \notin Members)
                  => reqs'[i].pc = "done" /\ reqs'[i].status = 404 /\ users' = users
             /\ (looked /\ id \in Members /\ users[id].isActive)
                  => reqs'[i].pc = "update" /\ users' = users
             /\ ( /\ reqs'[i].pc = "done" /\ reqs'[i].status # 500
                  /\ reqs'[i].rows = <<id>> /\ users'[id].isActive )
                  => reqs'[i].status = 200 /\ users'[id].isPaid]_vars

\* C11 witness: two successful verifications for the same active member
\* have both been answered 200, and the member is paid.
C11_Witness ==
  \E m \in Members, i \in Requests, j \in Requests :
    /\ i # j /\ users[m].isActive /\ users[m].isPaid
    /\ VerifiedFor(reqs[i], m) /\ Accepted(reqs[i], m)
    /\ VerifiedFor(reqs[j], m) /\ Accepted(reqs[j], m)

\* the signature in the header is the one the handler computes for the body
MatchesSecret(r) ==
  secret # NoSecret /\ r.arg.sig = Hmac(secret, Stringify(Parse(r.arg.raw)))

RegisteredBefore(m, j) ==
  \E i \in Requests :
    /\ i < j
    /\ reqs[i].kind = "submit" /\ reqs[i].pc = "done" /\ reqs[i].status = 201
    /\ reqs[i].rows = <<m>>

\* C13, as the specification states it: for an active unpaid member
\* registered through submit-form with badge b (stored amount b), the lookup
\* of a gateway-signed charge.success webhook carrying amount 100 * b and the
\* payer's email resolves to that member and goes on to set its isPaid,
\* unless the store fails.  (Issuing the payment link writes nothing, so it
\* does not appear in the formula.)
C13_WebhookResolvesRegistered ==
  [][\A j \in Requests, m \in Members :
       ( /\ ChargeSuccess(reqs[j])
         /\ reqs[j].pc = "select" /\ reqs'[j].pc # "select" /\ reqs'[j].status # 500
         /\ RegisteredBefore(m, j)
         /\ users[m].isActive /\ ~users[m].isPaid
         /\ Parse(reqs[j].arg.raw).data.amount = 100 * users[m].amount )
       => /\ reqs'[j].pc = "update"
          /\ reqs'[j].rows[1] = m]_vars

\* the references sent to the gateway
LinkRequests == {i \in Requests : reqs[i].kind = "link" /\ reqs[i].ref # <<>>}

\* C14, as the specification states it: any two payment-link requests that
\* reach the gateway carry distinct references.
C14_ReferencesUnique ==
  \A i \in LinkRequests, j \in LinkRequests : i # j => reqs[i].ref # reqs[j].ref

\* request i took the step (it arrived, or its record changed)
Stepped(i) == i \notin Requests \/ reqs'[i] # reqs[i]

\* C15: isPaid of a member changes only in the UPDATE step of a
\* verify-payment or webhook request; a step of generate-payment-link leaves
\* the whole table unchanged, and a step of submit-form or member-details
\* leaves every existing member's record unchanged.
C15_OnlyConfirmationsChangePaid ==
  [][/\ (\E m \in Members : users'[m].isPaid # users[m].isPaid)
          => \E i \in Requests :
               /\ reqs[i].kind \in {"verify", "webhook"}
               /\ reqs[i].pc = "update" /\ reqs'[i].pc = "written"
     /\ \A i \in DOMAIN reqs' :
          /\ (reqs'[i].kind = "link" /\ Stepped(i)) => users' = users
          /\ (reqs'[i].kind \in {"submit", "details"} /\ Stepped(i))
               => \A m \in Members : users'[m] = users[m]]_vars

\* C15 witness: a payment link was issued and a member was registered, and
\* no member is paid.
C15_Witness ==
  /\ \E i \in Requests : reqs[i].kind = "link" /\ reqs[i].pc = "done" /\ reqs[i].status = 200
  /\ \E i \in Requests : reqs[i].kind = "submit" /\ reqs[i].pc = "done" /\ reqs[i].status = 201
  /\ \A m \in Members : ~users[m].isPaid

\* C16, as the specification states it: a submit-form request that lacks any
\* of nickname, tiktokHandle, fanSince, badge, nationality is answered 400 on
\* arrival and creates no member record.
C16_MissingFieldRejected ==
  \A i \in Requests :
    (reqs[i].kind = "submit" /\ reqs[i].arg.missing \in FormFields)
    => reqs[i].pc = "done" /\ reqs[i].status = 400 /\ reqs[i].rows = <<>>

\* C17, as the specification states it: every request ends with a response
\* whose status is 2xx, 400, 404 or 500; no exception leaves a handler.
C17_EveryRequestAnswered ==
  \A i \in Requests :
    /\ reqs[i].pc # "threw"
    /\ reqs[i].pc = "done" => reqs[i].status \in {200, 201, 400, 404, 500}

\* the row a confirmation is aimed at: the id given to verify-payment, or the
\* first row of table u that matches the webhook's email and amount
Target(r, u) ==
  IF r.kind = "verify" THEN r.arg.userId
  ELSE LET d == Parse(r.arg.raw).data
       IN  SelectByEmailAmount(u, d.email, d.amount)[1]

\* the UPDATE of request i executes in this step
Writes(i) ==
  reqs[i].kind \in {"verify", "webhook"} /\ reqs[i].pc = "update" /\ reqs'[i].pc = "written"

\* C18: the UPDATE of a confirmation changes nothing but isPaid of its target
\* row (the userId of the verification, the first row the webhook's lookup
\* matches): every other row and every other field of the target row are as
\* before, and no row is added or removed.
C18_WritesOnlyTarget ==
  [][\A i \in Requests :
       Writes(i) =>
         LET t == Target(reqs[i], users)
         IN  /\ DOMAIN users' = DOMAIN users
             /\ users'[t] = [users[t] EXCEPT !.isPaid = TRUE]
             /\ \A m \in Members : m # t => users'[m] = users[m]]_vars

\* C18 witness: a webhook whose lookup matched two active members has
\* written, and the second match is still unpaid.
C18_Witness ==
  \E i \in Requests :
    /\ reqs[i].kind = "webhook" /\ Wrote(reqs[i])
    /\ Len(reqs[i].rows) > 1
    /\ users[reqs[i].rows[1]].isPaid
    /\ users[reqs[i].rows[2]].isActive /\ ~users[reqs[i].rows[2]].isPaid

\* request i sends a success answer of a confirmation in this step
AnswersSuccess(i) ==
  /\ reqs[i].kind \in {"verify", "webhook"}
  /\ reqs[i].pc # "done" /\ reqs'[i].pc = "done"
  /\ reqs'[i].status = 200 /\ reqs'[i].msg \in {"success", "Payment confirmed"}

\* C19: when verify-payment answers 200 {success: true} or the webhook
\* answers 200 "Payment confirmed", the request has executed its UPDATE and
\* the store holds isPaid = true for the target member before and after the
\* step that sends the answer; an UPDATE that fails is answered 500 and
\* writes nothing.
C19_SuccessAfterWrite ==
  [][\A i \in Requests :
       /\ AnswersSuccess(i)
            => /\ reqs[i].pc = "written"
               /\ users[Target(reqs[i], users)].isPaid
               /\ users'[Target(reqs[i], users)].isPaid
       /\ (reqs[i].kind \in {"verify", "webhook"} /\ reqs[i].pc = "update" /\ users' = users
             /\ ~users[Target(reqs[i], users)].isPaid /\ reqs'[i] # reqs[i])
            => reqs'[i].pc = "done" /\ reqs'[i].status = 500]_vars

\* C19 witness: one verification was answered 200 after its write, and the
\* UPDATE of another failed and was answered 500.
C19_Witness ==
  \E i \in Requests, j \in Requests :
    /\ reqs[i].kind = "verify" /\ reqs[i].pc = "done" /\ reqs[i].status = 200
    /\ users[reqs[i].arg.userId].isPaid
    /\ reqs[j].kind = "verify" /\ reqs[j].pc = "done" /\ reqs[j].status = 500
    /\ reqs[j].msg = "Error updating payment status"

====
